---- MODULE Spec2Model ----
(***************************************************************************)
(* State-machine model of src/app.py, the Streamlit sign-in-sheet script.  *)
(* One script run (one browser request of one session) reads the query    *)
(* parameters, picks a view and reads or rewrites the files of DATA_DIR.   *)
(* Streamlit runs every session's script in a thread of its own, so the    *)
(* file reads and writes of different sessions interleave.                 *)
(*                                                                         *)
(* Text is a sequence of one-character strings, so that str.strip and the  *)
(* CSV conversions are computed, not assumed.                              *)
(***************************************************************************)
EXTENDS Integers, Sequences, FiniteSets, TLC

(* ------------------------------ bounds -------------------------------- *)
\* browser sessions whose script runs may interleave
NumSessions == 2
\* seconds the wall clock may advance
MaxClock == 1
\* events the organiser creates
MaxEvents == 2

\* resets of one event
MaxResets == 1
\* presses of "Eintragen"
MaxSignups == 2

VARIABLES
    ADMIN_KEY,   \* configuration: the shared admin secret (line 55)
    api,         \* which query-parameter APIs the installed Streamlit offers
    profile,     \* which input sets the environment draws from (fixed by Init)
    csv,         \* DATA_DIR/<id>.csv       : the attendee table file per id
    metaf,       \* DATA_DIR/<id>_meta.json : the metadata file per id
    qr,          \* DATA_DIR/<id>_qr.png    : the QR image file per id
    clock,       \* the wall clock, in seconds
    pc,          \* per session: where its script run stands
    loc,         \* per session: the locals of its script run
    out,         \* what the last step rendered to its browser
    confirmed,   \* history: per id, the submissions confirmed as saved
    purged,      \* history: per id, the submissions stored when a reset, now completed, began
    resets,      \* history: per id, the number of resets pressed
    who,         \* history: per id, the submission behind each line of the table file
    signups      \* history: the number of presses of "Eintragen"

vars == <<ADMIN_KEY, api, profile, csv, metaf, qr, clock, pc, loc, out,
          confirmed, purged, resets, who, signups>>

persisted == <<csv, metaf, qr>>

(* ------------------------------- text --------------------------------- *)
None == "<None>"

\* Python truthiness of None and the empty string, negated
Falsy(v) == v = None \/ v = ""

RECURSIVE lstrip(_)
lstrip(s) ==
    IF s # <<>> /\ Head(s) = " " THEN lstrip(Tail(s)) ELSE s

RECURSIVE rstrip(_)
rstrip(s) ==
    IF s # <<>> /\ s[Len(s)] = " " THEN rstrip(SubSeq(s, 1, Len(s) - 1)) ELSE s

\* str.strip()
strip(s) == rstrip(lstrip(s))

(* ----------------------------- DataFrames ----------------------------- *)
\* the float NaN pandas stores for a missing cell; no text equals it
NaN == <<"<NaN>">>

\* the strings pandas.read_csv reads as missing (its default na_values),
\* as far as the model's inputs can produce them
STR_NA_VALUES == { <<>>, <<"n", "/", "a">>, <<"N", "A">> }

COLUMNS == <<"event_type", "timestamp", "date", "name", "company", "photo_consent">>

EmptyFrame == [columns |-> COLUMNS, rows |-> <<>>]

\* the position of column c in the column list cols, 0 when it is not one
ColIndex(cols, c) ==
    IF \E i \in 1..Len(cols) : cols[i] = c
    THEN CHOOSE i \in 1..Len(cols) : cols[i] = c
    ELSE 0

\* a file: missing, zero bytes long (opened for writing, not yet written), or CSV text
NoFile == [kind |-> "none", header |-> <<>>, lines |-> <<>>]
OpenedFile == [kind |-> "empty", header |-> <<>>, lines |-> <<>>]

\* DataFrame.to_csv(index=False): NaN is written as the empty field
to_csv(df) ==
    [kind |-> "csv",
     header |-> df.columns,
     lines |-> [i \in 1..Len(df.rows) |->
                  [j \in 1..Len(df.columns) |->
                     IF df.rows[i][j] = NaN THEN <<>> ELSE df.rows[i][j]]]]

\* pandas.read_csv of CSV text: a field in STR_NA_VALUES is read as NaN,
\* and so is a field that a line shorter than the header lacks
read_csv(f) ==
    [columns |-> f.header,
     rows |-> [i \in 1..Len(f.lines) |->
                 [j \in 1..Len(f.header) |->
                    IF j > Len(f.lines[i]) \/ f.lines[i][j] \in STR_NA_VALUES
                    THEN NaN
                    ELSE f.lines[i][j]]]]

\* the characters of one line of CSV text: its fields, commas between them
RECURSIVE join(_)
join(fields) ==
    IF fields = <<>> THEN <<>>
    ELSE IF Len(fields) = 1 THEN fields[1]
    ELSE fields[1] \o <<",">> \o join(Tail(fields))

\* the characters of lines of CSV text, each line ended by a newline
RECURSIVE text_of(_)
text_of(lines) ==
    IF lines = <<>> THEN <<>>
    ELSE join(Head(lines)) \o <<"\n">> \o text_of(Tail(lines))

\* the characters of a file; a column name counts as one character
file_text(f) ==
    IF f.kind = "csv"
    THEN text_of(<< [j \in 1..Len(f.header) |-> <<f.header[j]>>] >> \o f.lines)
    ELSE <<>>

\* str.split(sep) on a sequence of characters
RECURSIVE split(_, _)
split(text, sep) ==
    IF \A i \in 1..Len(text) : text[i] # sep
    THEN <<text>>
    ELSE LET k == CHOOSE i \in 1..Len(text) :
                    text[i] = sep /\ \A j \in 1..(i - 1) : text[j] # sep
         IN <<SubSeq(text, 1, k - 1)>> \o split(SubSeq(text, k + 1, Len(text)), sep)

\* the lines read_csv finds in characters below the header line: blank
\* lines are skipped, every other line is cut at its commas
lines_of(text) ==
    LET found == SelectSeq(split(text, "\n"), LAMBDA l : l # <<>>)
    IN [i \in 1..Len(found) |-> split(found[i], ",")]

\* The second half of to_csv(path): the text is written at offset 0 through
\* the descriptor that open(path, "w") gave.  open() emptied the file; what
\* another descriptor has written to it since stays where the text does
\* not reach, the file being as long as the longer of the two.
file_write(text, f) ==
    LET mine == file_text(text)
        theirs == file_text(f)
    IN [text EXCEPT !.lines = @ \o lines_of(SubSeq(theirs, Len(mine) + 1, Len(theirs)))]

\* the lines of f that file_write(text, f) keeps: its last ones
kept(text, f) == Len(file_write(text, f).lines) - Len(text.lines)

\* load_event_df on the file f: a missing file and a file read_csv cannot
\* parse (zero bytes: EmptyDataError) both give the empty default frame
load_event_df(f) ==
    IF f.kind = "csv" THEN read_csv(f) ELSE EmptyFrame

\* pd.concat([df, pd.DataFrame([row])], ignore_index=True), row a dict
concat(df, row) ==
    LET extra == SelectSeq(COLUMNS, LAMBDA c : c \in DOMAIN row /\ ColIndex(df.columns, c) = 0)
        cols == df.columns \o extra
        widen(r) == r \o [j \in 1..Len(extra) |-> NaN]
        cell(c) == IF c \in DOMAIN row THEN row[c] ELSE NaN
    IN [columns |-> cols,
        rows |-> [i \in 1..Len(df.rows) |-> widen(df.rows[i])]
                 \o << [j \in 1..Len(cols) |-> cell(cols[j])] >>]

\* df.iloc[0:0]
iloc_0_0(df) == [columns |-> df.columns, rows |-> <<>>]

(* ------------------------- identifiers, time -------------------------- *)
\* uuid.uuid4().hex[:10]: opaque tokens; the i-th token handed out is named
\* by i, which no code below reads
Token(i) == "e" \o ToString(i)
Tokens == { Token(i) : i \in 1..MaxEvents }

\* an id some printed code or stale link carries, for which no event exists
StaleId == "stale"

Ids == Tokens \cup {StaleId}

\* datetime.now().isoformat(timespec="seconds") as a CSV cell
isoformat(now) == <<"T", ToString(now)>>

\* now.strftime("%d.%m.%Y") as a CSV cell
strftime(now) == <<"D", ToString(now \div 86400)>>

(* ------------------------------- links -------------------------------- *)
BASE_URL == "https://teilnehmerliste.streamlit.app"

form_link_for(eid) ==
    [base |-> BASE_URL, path |-> "/index.html", event |-> eid,
     mode |-> "form", v |-> eid, key |-> None]

admin_link_for(eid) ==
    [base |-> BASE_URL, path |-> "/index.html", event |-> eid,
     mode |-> "admin", v |-> None, key |-> ADMIN_KEY]

\* the QR image file: missing, or the PNG that encodes a link
NoImage == [exists |-> FALSE, encodes |-> form_link_for(None)]
make_qr_png_bytes(link) == [exists |-> TRUE, encodes |-> link]

(* --------------------------- event metadata --------------------------- *)
BrandschutzhelferSeminar == <<"B", "S">>
Feuerloeschtraining == <<"F", "T">>

NoMeta ==
    [exists |-> FALSE, id |-> None, title |-> <<>>, date |-> <<>>,
     location |-> <<>>, event_type |-> <<>>, created_at |-> 0]

\* the dict new_event writes as <id>_meta.json
new_meta(event_id, title, date, location, event_type, now) ==
    [exists |-> TRUE, id |-> event_id, title |-> strip(title), date |-> strip(date),
     location |-> strip(location), event_type |-> strip(event_type),
     created_at |-> now]

\* read_meta: the stored dict, or the default dict for an unknown id
read_meta(event_id) ==
    IF metaf[event_id].exists
    THEN metaf[event_id]
    ELSE [NoMeta EXCEPT !.id = event_id]

\* pretype of the form view (line 335)
pretype_of(m) ==
    strip(IF m.event_type # <<>> THEN m.event_type ELSE Feuerloeschtraining)

\* the ids that have a *_meta.json file
MetaIds == { e \in Ids : metaf[e].exists }

\* the orders in which os.listdir may name the *_meta.json files: any
Listdirs ==
    { o \in [1..Cardinality(MetaIds) -> MetaIds] :
        \A i, j \in DOMAIN o : i # j => o[i] # o[j] }

\* list.sort(key=created_at, reverse=True) is stable: an item goes behind
\* every item whose key is not smaller, in the order the items came
RECURSIVE sort_desc(_, _)
sort_desc(done, todo) ==
    IF todo = <<>> THEN done
    ELSE LET x == Head(todo)
             k == Cardinality({ i \in 1..Len(done) : done[i].created_at >= x.created_at })
         IN sort_desc(SubSeq(done, 1, k) \o <<x>> \o SubSeq(done, k + 1, Len(done)),
                      Tail(todo))

\* list_events, given the order os.listdir returned
list_events(listdir) ==
    sort_desc(<<>>, [i \in 1..Len(listdir) |-> metaf[listdir[i]]])

(* --------------------------- query parameters ------------------------- *)
ParamNames == {"event", "mode", "key", "noredirect"}

\* dict(st.query_params): the parameters the URL carries, each a string
qp_new_of(q) == [n \in { m \in ParamNames : q[m] # None } |-> q[n]]

\* st.experimental_get_query_params(): each a list of strings; the call
\* raises on a Streamlit that no longer has it, which leaves {}
qp_old_of(q) ==
    IF api = "both"
    THEN [n \in { m \in ParamNames : q[m] # None } |-> <<q[n]>>]
    ELSE [n \in {} |-> <<None>>]

_pick_param(qp_new, qp_old, name, default) ==
    IF name \in DOMAIN qp_new /\ qp_new[name] \notin {None, ""}
    THEN qp_new[name]
    ELSE LET v == IF name \in DOMAIN qp_old THEN qp_old[name] ELSE <<None>>
         IN IF Falsy(v[1]) THEN default ELSE v[1]

\* the key check of line 373
access_denied(admin_key) == admin_key # ADMIN_KEY

\* mutant of home_guard: the mode is not looked at
home_guard_any_mode(event_id, mode) == Falsy(event_id)

\* the guard of the home view, line 274
home_guard(event_id, mode) == Falsy(event_id) /\ Falsy(mode)

\* One run of the script down to the choice of the view.  q: the query
\* parameters; referer: whether the websocket referer holds "index.html"
\* and what the two regular expressions of lines 233-234 find in it;
\* events: what list_events returns at line 263, where the run comes to
\* it.  st.rerun() ends the run: the view "rerun" carries the parameters
\* the next run of the session starts with.
Script(q, referer, events) ==
    LET qp_new == qp_new_of(q)
        qp_old == qp_old_of(q)
        event_id == _pick_param(qp_new, qp_old, "event", None)
        mode == _pick_param(qp_new, qp_old, "mode", "")
        admin_key == _pick_param(qp_new, qp_old, "key", "")
        noredirect == _pick_param(qp_new, qp_old, "noredirect", "")
        At(view, next_q) == [view |-> view, event_id |-> event_id, q |-> next_q]
    IN IF "event" \in DOMAIN qp_new /\ ~referer.index
       THEN At("redirect_index", q)
       ELSE IF Falsy(event_id) /\ referer.event # None
       THEN At("rerun", [q EXCEPT !.event = referer.event,
                                  !.mode = IF referer.mode # None THEN referer.mode
                                           ELSE "form"])
       ELSE IF Falsy(event_id) /\ Falsy(mode) /\ Falsy(noredirect) /\ events # <<>>
       THEN At("rerun", [q EXCEPT !.event = events[1].id, !.mode = "form"])
       ELSE IF home_guard(event_id, mode)
       THEN At("home", q)
       ELSE IF ~Falsy(event_id) /\ mode = "form"
       THEN At("form", q)
       ELSE IF mode = "admin"
       THEN IF access_denied(admin_key) THEN At("denied", q) ELSE At("admin", q)
       ELSE At("blank", q)

(* ------------------------------- pages -------------------------------- *)
Sessions == 1..NumSessions

NoRosters == [e \in {} |-> EmptyFrame]

\* What a script run renders: the view, the request it answers (its query
\* parameters, and whether st.rerun() started the run with rebuilt ones),
\* the events listed, the attendee tables shown, the links shown and the
\* buttons offered; notice is the success or error message shown, if any.
Page(kind, q, reran, events, rosters, links, buttons) ==
    [kind |-> kind, q |-> q, reran |-> reran, events |-> events,
     rosters |-> rosters, links |-> links, buttons |-> buttons, notice |-> "none"]

Notice(page, message) == [page EXCEPT !.notice = message]

NoQuery == [event |-> None, mode |-> None, key |-> None, noredirect |-> None]

\* a step that renders nothing
NoOut == Page("none", NoQuery, FALSE, <<>>, NoRosters, {}, {})

ids_of(events) == [i \in 1..Len(events) |-> events[i].id]

\* the home view: the create form and the list below it (lines 274-325)
HomePage(q, reran, events) ==
    Page("home", q, reran, ids_of(events), NoRosters,
         UNION { {form_link_for(events[i].id), admin_link_for(events[i].id)} :
                 i \in 1..Len(events) },
         {"create"})

\* the button pressed in the admin view, if any, and the event it belongs to
NoPress == <<"none", None>>

\* the success message of the button pressed (lines 424, 431)
notice_of(press) ==
    CASE press[1] = "regen" -> "QR aktualisiert"
      [] press[1] = "reset" -> "Liste zurueckgesetzt"
      [] OTHER -> "none"

\* the admin overview once its loop over the events has ended (lines
\* 383-435); ids: the events listed, rosters: the table loaded for each
AdminPage(q, reran, ids, rosters, press) ==
    Notice(Page("admin", q, reran, ids, rosters,
                { form_link_for(ids[i]) : i \in 1..Len(ids) },
                {"csv", "xlsx", "regen", "reset"}),
           notice_of(press))

\* what a script run renders that is past its reads and saw no click
Rendered(r, reran) ==
    CASE r.view = "admin" -> Page("admin_empty", r.q, reran, <<>>, NoRosters, {}, {})
      [] r.view = "form" -> Page("form", r.q, reran, <<>>, NoRosters, {}, {"signup"})
      [] r.view = "denied" -> Page("denied", r.q, reran, <<>>, NoRosters, {}, {})
      [] r.view = "redirect_index" ->
           Page("redirect_index", r.q, reran, <<>>, NoRosters, {}, {})
      [] OTHER -> Page("blank", r.q, reran, <<>>, NoRosters, {}, {})

(* ------------------------------ inputs -------------------------------- *)
\* Three sets of inputs, chosen by Init.  "desk" is the check-in desk: the
\* links the app prints, every kind of text typed into the form.  "race"
\* is the desk with several devices at once and plain text.  "any" is one
\* browser sending every kind of link.

\* the configured secrets tried: ADMIN_KEY set to a string or to the empty
\* string; at the desk the fallback "112" of line 55
Secrets == IF profile = "any" THEN {"", "Abc"} ELSE {"112"}

\* the Streamlit versions tried
Apis == IF profile = "any" THEN {"new", "both"} ELSE {"new"}

\* what is typed into the text fields
Names ==
    CASE profile = "desk" -> { <<>>, <<" ", "M">>, <<"K", " ">> }
      [] profile = "race" -> { <<" ">>, <<" ", "M">> }
      [] OTHER -> { <<" ">>, <<"M">> }

Companies ==
    CASE profile = "desk" -> { <<" ">>, <<"F", " ">>, <<"n", "/", "a">> }
      [] profile = "race" -> { <<" ">>, <<"F", " ">> }
      [] OTHER -> { <<"F">> }

Consents ==
    IF profile = "desk" THEN { <<"J", "a">>, <<"N", "e", "i", "n">> } ELSE { <<"J", "a">> }

EventTypes ==
    IF profile = "desk" THEN { BrandschutzhelferSeminar, Feuerloeschtraining }
    ELSE { BrandschutzhelferSeminar }

\* the query parameters of a link
Query(event, mode, key, noredirect) ==
    [event |-> event, mode |-> mode, key |-> key, noredirect |-> noredirect]

\* The query parameters the browser sends.  At the desk: the bare address,
\* the address of the home view, the form links printed and the admin
\* view.  Else every combination, a key being sent with mode "admin" and
\* noredirect without an event.
Queries ==
    IF profile = "any"
    THEN { q \in [event : {None, ""} \cup MetaIds \cup {StaleId},
                  mode : {None, "form", "admin", "list"},
                  key : {None, "", "Abc", "abc"},
                  noredirect : {None, "1"}] :
             /\ q.key # None => q.mode = "admin"
             /\ q.noredirect # None => Falsy(q.event) }
    ELSE { Query(None, None, None, None), Query(None, None, None, "1"),
           Query(None, "admin", ADMIN_KEY, None) }
           \cup { Query(e, "form", None, None) : e \in MetaIds }

\* the websocket referer: whether it holds "index.html", and the event and
\* mode the regular expressions find in it
NoReferer == [index |-> TRUE, event |-> None, mode |-> None]

Referers ==
    IF profile = "any"
    THEN { NoReferer, [index |-> FALSE, event |-> None, mode |-> None] }
         \cup { [index |-> TRUE, event |-> e, mode |-> m] : e \in MetaIds, m \in {None, "admin"} }
    ELSE { NoReferer }

(* ------------------------------- state -------------------------------- *)
\* The locals of a script run.  Create form: event_type and created_at
\* (of the dict meta of new_event).  Form view: event_id, df, pretype and the
\* fields.  Admin view: events (the ids list_events returned), i (the turn
\* of the loop), rosters (the tables loaded so far), press, df.  Between
\* st.rerun() and the next run: q and referer.  raw (the table file as the
\* run found it), id and who (the submission, and those behind the rows
\* of df) and stored are history; no step reads them.
IdleLoc ==
    [event_id |-> None, raw |-> NoFile, df |-> EmptyFrame, pretype |-> <<>>,
     name |-> <<>>, company |-> <<>>, photo_consent |-> <<>>,
     q |-> NoQuery, referer |-> NoReferer, reran |-> FALSE,
     events |-> <<>>, i |-> 0, rosters |-> NoRosters, press |-> NoPress,
     event_type |-> <<>>, created_at |-> 0,
     id |-> 0, who |-> <<>>, stored |-> {}]

InitWith(p, active) ==
    /\ profile = p
    /\ ADMIN_KEY \in Secrets
    /\ api \in Apis
    /\ csv = [e \in Ids |-> NoFile]
    /\ metaf = [e \in Ids |-> NoMeta]
    /\ qr = [e \in Ids |-> NoImage]
    /\ clock = 0
    /\ pc = [s \in Sessions |-> IF s \in active THEN "idle" ELSE "off"]
    /\ loc = [s \in Sessions |-> IdleLoc]
    /\ out = NoOut
    /\ confirmed = [e \in Ids |-> {}]
    /\ purged = [e \in Ids |-> {}]
    /\ resets = [e \in Ids |-> 0]
    /\ who = [e \in Ids |-> <<>>]
    /\ signups = 0

\* the check-in desk, several devices at once
Init == InitWith("race", Sessions)

\* the check-in desk, one device
InitAlone == InitWith("desk", {1})

\* one browser, every kind of link
InitAny == InitWith("any", {1})

(* ------------------------------ actions ------------------------------- *)
\* a session between two requests, the page of the last step delivered
Waiting(s) == out = NoOut /\ pc[s] = "idle"

\* A page, once rendered, is with the browser; the next step starts then.
Deliver ==
    /\ out # NoOut
    /\ out' = NoOut
    /\ UNCHANGED <<ADMIN_KEY, api, profile, csv, metaf, qr, clock, pc, loc,
                   confirmed, purged, resets, who, signups>>

\* the wall clock advances
Tick ==
    /\ out = NoOut
    /\ clock < MaxClock
    /\ clock' = clock + 1
    /\ UNCHANGED <<ADMIN_KEY, api, profile, csv, metaf, qr, pc, loc, out,
                   confirmed, purged, resets, who, signups>>

\* what list_events may return, os.listdir being free in its order
Listings == { list_events(listdir) : listdir \in Listdirs }

\* what a script run leaves alone whatever its view
RequestFrame == UNCHANGED <<ADMIN_KEY, api, profile, clock, confirmed, purged>>

\* A script run that saw no click, from the choice of its view r on:
\* st.rerun() ends it with the rebuilt parameters kept for the next run;
\* the home view goes on to its list of events (line 302); the admin view
\* with events enters its loop over them (line 383); every other view is
\* rendered at once.  events: what list_events returned at line 378.
Begin(s, r, reran, referer, events) ==
    CASE r.view = "rerun" ->
           /\ pc' = [pc EXCEPT ![s] = "rerun"]
           /\ loc' = [loc EXCEPT ![s] = [IdleLoc EXCEPT !.q = r.q, !.referer = referer]]
           /\ out' = out
      [] r.view = "home" ->
           /\ pc' = [pc EXCEPT ![s] = "home"]
           /\ loc' = [loc EXCEPT ![s] = [IdleLoc EXCEPT !.q = r.q, !.reran = reran]]
           /\ out' = out
      [] r.view = "admin" /\ events # <<>> ->
           /\ pc' = [pc EXCEPT ![s] = "admin_loop"]
           /\ loc' = [loc EXCEPT ![s] = [IdleLoc EXCEPT !.q = r.q, !.reran = reran,
                                                        !.events = ids_of(events), !.i = 1]]
           /\ out' = out
      [] OTHER ->
           /\ pc' = [pc EXCEPT ![s] = "idle"]
           /\ loc' = [loc EXCEPT ![s] = IdleLoc]
           /\ out' = Rendered(r, reran)

\* A request without a click: one run of the script.
Render(s, q, referer, events) ==
    /\ Waiting(s)
    /\ Begin(s, Script(q, referer, events), FALSE, referer, events)
    /\ UNCHANGED <<csv, metaf, qr, resets, who, signups>>
    /\ RequestFrame

\* The run Streamlit starts after st.rerun() (lines 240, 268), with the
\* parameters the run before it set and the referer of the same websocket.
Rerun(s, events) ==
    /\ out = NoOut
    /\ pc[s] = "rerun"
    /\ Begin(s, Script(loc[s].q, loc[s].referer, events), TRUE, loc[s].referer, events)
    /\ UNCHANGED <<csv, metaf, qr, resets, who, signups>>
    /\ RequestFrame

\* The home view below its create form (lines 301-325): the events are
\* listed anew and shown.
HomeList(s, events) ==
    /\ out = NoOut
    /\ pc[s] = "home"
    /\ out' = HomePage(loc[s].q, loc[s].reran, events)
    /\ pc' = [pc EXCEPT ![s] = "idle"]
    /\ loc' = [loc EXCEPT ![s] = IdleLoc]
    /\ UNCHANGED <<csv, metaf, qr, resets, who, signups>>
    /\ RequestFrame

\* save_event_df(event_id, df) from the write inside to_csv on
save_event_df(event_id, df) ==
    csv' = [csv EXCEPT ![event_id] = file_write(to_csv(df), csv[event_id])]

\* new_event from line 160 on (lines 160-171), now being the time line 157
\* read: the table, the QR image and last the metadata file are written.
\* No run knows the fresh id before the metadata file is complete (an
\* unfinished one is skipped by list_events and read_meta), so the writes
\* are one step.
new_event(event_id, title, date, location, event_type, now) ==
    /\ save_event_df(event_id, load_event_df(csv[event_id]))
    /\ qr' = [qr EXCEPT ![event_id] = make_qr_png_bytes(form_link_for(event_id))]
    /\ metaf' = [metaf EXCEPT ![event_id] =
                   new_meta(event_id, title, date, location, event_type, now)]

\* the script runs that are about to store an event
Creating == { s \in Sessions : pc[s] \in {"create", "create_save"} }

\* The home view with "Termin erstellen" pressed, down to the call of
\* new_event (lines 16-293).  A click comes from a page of its view, whose
\* address the request repeats; the run reaches the create form if the
\* auto-redirect, with the events it lists at line 263, lets it.
CreatePress(s, q, referer, events) ==
    /\ Waiting(s)
    /\ Cardinality(MetaIds) + Cardinality(Creating) < MaxEvents
    /\ Falsy(q.mode)
    /\ LET r == Script(q, referer, events)
       IN /\ r.view = "home"
          /\ \E event_type \in EventTypes :
               loc' = [loc EXCEPT ![s] = [IdleLoc EXCEPT !.q = r.q,
                                                          !.event_type = event_type]]
    /\ pc' = [pc EXCEPT ![s] = "create"]
    /\ UNCHANGED <<csv, metaf, qr, out, resets, who, signups>>
    /\ RequestFrame

\* new_event down to its dict meta (lines 150-158): the clock is read.
CreateStamp(s) ==
    /\ out = NoOut
    /\ pc[s] = "create"
    /\ loc' = [loc EXCEPT ![s].created_at = clock]
    /\ pc' = [pc EXCEPT ![s] = "create_save"]
    /\ UNCHANGED <<csv, metaf, qr, out, resets, who, signups>>
    /\ RequestFrame

\* The rest of new_event and of the create form (lines 160-171, 294-299):
\* the event is stored under its fresh id and its link shown.
CreateEvent(s) ==
    /\ out = NoOut
    /\ pc[s] = "create_save"
    /\ LET event_id == Token(Cardinality(MetaIds) + 1)
       IN /\ new_event(event_id, <<"T", " ">>, <<"D">>, <<" ", "W">>,
                       loc[s].event_type, loc[s].created_at)
          /\ out' = Notice(Page("created", loc[s].q, FALSE, <<event_id>>, NoRosters,
                                {form_link_for(event_id)}, {"create"}),
                           "Termin erstellt")
    /\ pc' = [pc EXCEPT ![s] = "idle"]
    /\ loc' = [loc EXCEPT ![s] = IdleLoc]
    /\ UNCHANGED <<resets, who, signups>>
    /\ RequestFrame

\* The form view with "Eintragen" pressed, down to the form (lines 331-343):
\* the table and the metadata are loaded.
SignupLoad(s, q, referer, events) ==
    /\ Waiting(s)
    /\ signups < MaxSignups
    /\ signups' = signups + 1
    /\ q.mode = "form"
    /\ LET r == Script(q, referer, events)
       IN /\ r.view = "form"
          /\ \E name \in Names, company \in Companies, photo_consent \in Consents :
               loc' = [loc EXCEPT ![s] =
                         [IdleLoc EXCEPT !.event_id = r.event_id,
                                         !.raw = csv[r.event_id],
                                         !.df = load_event_df(csv[r.event_id]),
                                         !.pretype = pretype_of(read_meta(r.event_id)),
                                         !.name = name, !.company = company,
                                         !.photo_consent = photo_consent,
                                         !.id = signups + 1,
                                         !.who = who[r.event_id]]]
    /\ pc' = [pc EXCEPT ![s] = "form_loaded"]
    /\ UNCHANGED <<csv, metaf, qr, out, resets, who>>
    /\ RequestFrame

\* The steps below finish a request whose script passed the form guard
\* (event_id set, mode "form"); their pages name the request by these
\* parameters.
FormQuery(event_id) == Query(event_id, "form", None, None)

\* mutant of is_rejected: the fields are tested without strip()
is_rejected_unstripped(name, company) == name = <<>> \/ company = <<>>

\* the validation of line 346
is_rejected(name, company) == strip(name) = <<>> \/ strip(company) = <<>>

\* the dict of lines 350-357
new_row(pretype, now, name, company, photo_consent) ==
    [c \in { COLUMNS[i] : i \in 1..Len(COLUMNS) } |->
       CASE c = "event_type" -> pretype
         [] c = "timestamp" -> isoformat(now)
         [] c = "date" -> strftime(now)
         [] c = "name" -> strip(name)
         [] c = "company" -> strip(company)
         [] c = "photo_consent" -> photo_consent]

\* Lines 345-358: the fields are checked; a rejected submission ends here,
\* its form keeping what was typed; an accepted one reads the clock and appends its row to the frame it
\* loaded.
SignupSubmit(s) ==
    /\ out = NoOut
    /\ pc[s] = "form_loaded"
    /\ IF is_rejected(loc[s].name, loc[s].company)
       THEN /\ out' = Notice(Page("form_error", FormQuery(loc[s].event_id), FALSE, <<>>,
                                   NoRosters, {}, {"signup"}),
                              "Bitte alle Pflichtfelder ausfuellen")
            /\ pc' = [pc EXCEPT ![s] = "idle"]
            /\ loc' = [loc EXCEPT ![s] = [IdleLoc EXCEPT !.name = loc[s].name,
                                                         !.company = loc[s].company]]
       ELSE /\ out' = NoOut
            /\ pc' = [pc EXCEPT ![s] = "form_row"]
            /\ loc' = [loc EXCEPT ![s].df =
                         concat(loc[s].df,
                                new_row(loc[s].pretype, clock, loc[s].name,
                                        loc[s].company, loc[s].photo_consent)),
                                   ![s].who = Append(loc[s].who, loc[s].id)]
    /\ UNCHANGED <<ADMIN_KEY, api, profile, csv, metaf, qr, clock, confirmed, purged,
                   resets, who, signups>>

\* Line 359 down to the open() inside to_csv: the table file is opened for
\* writing, which empties it.
SignupOpen(s) ==
    /\ out = NoOut
    /\ pc[s] = "form_row"
    /\ csv' = [csv EXCEPT ![loc[s].event_id] = OpenedFile]
    /\ who' = [who EXCEPT ![loc[s].event_id] = <<>>]
    /\ pc' = [pc EXCEPT ![s] = "form_open"]
    /\ UNCHANGED <<ADMIN_KEY, api, profile, metaf, qr, clock, loc, out, confirmed,
                   purged, resets, signups>>

\* Lines 359-364 from the write inside to_csv on: the frame is written and
\* the submission confirmed.
SignupWrite(s) ==
    /\ out = NoOut
    /\ pc[s] = "form_open"
    /\ save_event_df(loc[s].event_id, loc[s].df)
    /\ who' = [who EXCEPT ![loc[s].event_id] =
                 loc[s].who \o SubSeq(@, Len(@) - kept(to_csv(loc[s].df), csv[loc[s].event_id]) + 1,
                                      Len(@))]
    /\ out' = Notice(Page("form_saved", FormQuery(loc[s].event_id), FALSE, <<>>,
                          NoRosters, {}, {"signup"}),
                     "Anmeldung gespeichert")
    /\ confirmed' = [confirmed EXCEPT ![loc[s].event_id] = @ \cup {loc[s].id}]
    /\ pc' = [pc EXCEPT ![s] = "idle"]
    /\ loc' = [loc EXCEPT ![s] = IdleLoc]
    /\ UNCHANGED <<ADMIN_KEY, api, profile, metaf, qr, clock, purged, resets, signups>>

\* The admin view with "QR neu erzeugen" or "Liste zuruecksetzen" pressed
\* for one of the events listed, down to the loop over the events (lines
\* 372-383); the button acts when the loop comes to its event.
AdminPress(s, q, referer, events) ==
    /\ Waiting(s)
    /\ events # <<>>
    /\ q.mode = "admin"
    /\ LET r == Script(q, referer, events)
       IN /\ r.view = "admin"
          /\ \E i \in 1..Len(events), button \in {"regen", "reset"} :
               /\ button = "reset" => resets[events[i].id] < MaxResets
               /\ resets' = IF button = "reset"
                            THEN [resets EXCEPT ![events[i].id] = @ + 1]
                            ELSE resets
               /\ loc' = [loc EXCEPT ![s] =
                            [IdleLoc EXCEPT !.q = r.q, !.events = ids_of(events), !.i = 1,
                                            !.press = <<button, events[i].id>>]]
    /\ pc' = [pc EXCEPT ![s] = "admin_loop"]
    /\ UNCHANGED <<csv, metaf, qr, out, who, signups>>
    /\ RequestFrame

\* The end of one turn of the admin loop, l being the locals it leaves:
\* the next turn, or after the last event st.stop() (line 435) and the page.
Advanced(s, l) ==
    IF l.i < Len(l.events)
    THEN /\ pc' = [pc EXCEPT ![s] = "admin_loop"]
         /\ loc' = [loc EXCEPT ![s] = [l EXCEPT !.i = @ + 1]]
         /\ out' = out
    ELSE /\ pc' = [pc EXCEPT ![s] = "idle"]
         /\ loc' = [loc EXCEPT ![s] = IdleLoc]
         /\ out' = AdminPage(l.q, l.reran, l.events, l.rosters, l.press)

\* One turn of the admin loop down to the buttons (lines 383-417): the
\* table of the event is loaded and shown.
AdminLoad(s) ==
    /\ out = NoOut
    /\ pc[s] = "admin_loop"
    /\ LET eid == loc[s].events[loc[s].i]
           l == [loc[s] EXCEPT !.rosters = (eid :> load_event_df(csv[eid])) @@ @]
       IN IF loc[s].press[2] = eid
          THEN /\ pc' = [pc EXCEPT ![s] = loc[s].press[1]]
               /\ loc' = [loc EXCEPT ![s] = l]
               /\ out' = out
          ELSE Advanced(s, l)
    /\ UNCHANGED <<ADMIN_KEY, api, profile, csv, metaf, qr, clock, confirmed, purged,
                   resets, who, signups>>

\* regenerate_qr_for_event (lines 139-143)
regenerate_qr_for_event(eid) ==
    qr' = [qr EXCEPT ![eid] = make_qr_png_bytes(form_link_for(eid))]

\* "QR neu erzeugen" in the turn of its event (lines 422-424).
AdminRegen(s) ==
    /\ out = NoOut
    /\ pc[s] = "regen"
    /\ regenerate_qr_for_event(loc[s].press[2])
    /\ Advanced(s, loc[s])
    /\ UNCHANGED <<ADMIN_KEY, api, profile, csv, metaf, clock, confirmed, purged,
                   resets, who, signups>>

\* load_event_df(eid).iloc[0:0] of line 430
reset_frame(eid) == iloc_0_0(load_event_df(csv[eid]))

\* "Liste zuruecksetzen" in the turn of its event, down to the open() inside
\* to_csv (lines 429-430): the table is loaded once more, cut to no rows,
\* and its file opened for writing, which empties it.
AdminReset(s) ==
    /\ out = NoOut
    /\ pc[s] = "reset"
    /\ LET eid == loc[s].press[2]
       IN /\ loc' = [loc EXCEPT ![s].event_id = eid,
                                ![s].df = reset_frame(eid),
                                ![s].stored = { who[eid][i] : i \in 1..Len(who[eid]) }]
          /\ csv' = [csv EXCEPT ![eid] = OpenedFile]
          /\ who' = [who EXCEPT ![eid] = <<>>]
    /\ pc' = [pc EXCEPT ![s] = "reset_open"]
    /\ UNCHANGED <<ADMIN_KEY, api, profile, metaf, qr, clock, out, confirmed, purged,
                   resets, signups>>

\* Lines 430-431: the empty frame is written and the reset reported.
ResetWrite(s) ==
    /\ out = NoOut
    /\ pc[s] = "reset_open"
    /\ save_event_df(loc[s].event_id, loc[s].df)
    /\ who' = [who EXCEPT ![loc[s].event_id] =
                 SubSeq(@, Len(@) - kept(to_csv(loc[s].df), csv[loc[s].event_id]) + 1, Len(@))]
    /\ purged' = [purged EXCEPT ![loc[s].event_id] = @ \cup loc[s].stored]
    /\ Advanced(s, [loc[s] EXCEPT !.event_id = None, !.df = EmptyFrame, !.stored = {}])
    /\ UNCHANGED <<ADMIN_KEY, api, profile, metaf, qr, clock, confirmed, resets, signups>>

Next ==
    \/ Deliver
    \/ Tick
    \/ \E s \in Sessions :
         /\ Waiting(s)
         /\ \E q \in Queries, referer \in Referers, events \in Listings :
              Render(s, q, referer, events)
    \/ \E s \in Sessions :
         /\ pc[s] = "rerun"
         /\ \E events \in Listings : Rerun(s, events)
    \/ \E s \in Sessions :
         /\ pc[s] = "home"
         /\ \E events \in Listings : HomeList(s, events)
    \/ \E s \in Sessions :
         /\ Waiting(s)
         /\ \E q \in Queries, referer \in Referers, events \in Listings :
              CreatePress(s, q, referer, events)
    \/ \E s \in Sessions : CreateStamp(s)
    \/ \E s \in Sessions : CreateEvent(s)
    \/ \E s \in Sessions :
         /\ Waiting(s)
         /\ \E q \in Queries, referer \in Referers, events \in Listings :
              SignupLoad(s, q, referer, events)
    \/ \E s \in Sessions :
         /\ Waiting(s)
         /\ \E q \in Queries, referer \in Referers, events \in Listings :
              AdminPress(s, q, referer, events)
    \/ \E s \in Sessions : SignupSubmit(s)
    \/ \E s \in Sessions : SignupOpen(s)
    \/ \E s \in Sessions : SignupWrite(s)
    \/ \E s \in Sessions : AdminLoad(s)
    \/ \E s \in Sessions : AdminRegen(s)
    \/ \E s \in Sessions : AdminReset(s)
    \/ \E s \in Sessions : ResetWrite(s)

Spec == Init /\ [][Next]_vars

SpecAlone == InitAlone /\ [][Next]_vars

SpecAny == InitAny /\ [][Next]_vars

(* ------------------------------- claims ------------------------------- *)
\* no script run stands between its first read and its last write
Quiet == \A s \in Sessions : pc[s] \in {"idle", "off"}

\* the submissions behind the lines of the table file of e
in_table(e) == { who[e][i] : i \in 1..Len(who[e]) }

\* the place of an id in the order of creation
created_nth(id) == CHOOSE i \in 1..MaxEvents : Token(i) = id

\* a page of a request that the iPhone/Safari workarounds left alone
Direct(page) == ~page.reran /\ page.kind # "redirect_index"

\* C1: whenever no script run is under way, the table of an event for
\* which no reset was pressed holds exactly one row per confirmed
\* submission, and every confirmed submission is behind one of its rows.
C1_NoLostUpdate ==
    Quiet =>
      \A e \in MetaIds :
        resets[e] = 0 =>
          /\ Len(csv[e].lines) = Cardinality(confirmed[e])
          /\ confirmed[e] \subseteq in_table(e)

\* C2: a valid submission to an event, with no other writer, leaves the
\* table it loaded with one more row, the new row last and equal to the
\* trimmed inputs, the rows before it as they were and in their order.
C2_AppendsOneRow ==
    [][\A s \in Sessions :
         (pc[s] = "form_open" /\ pc'[s] = "idle" /\ loc[s].event_id \in MetaIds) =>
           LET before == loc[s].raw.lines
               after == csv'[loc[s].event_id]
               n == Len(before)
               at(c) == after.lines[n + 1][ColIndex(after.header, c)]
           IN /\ after.kind = "csv"
              /\ Len(after.lines) = n + 1
              /\ SubSeq(after.lines, 1, n) = before
              /\ at("name") = strip(loc[s].name)
              /\ at("company") = strip(loc[s].company)
              /\ at("photo_consent") = loc[s].photo_consent]_vars

\* C3: a submission whose name or company is empty after trimming is
\* answered with the validation error, and neither its load nor its check
\* changes a table, the metadata or a QR file.
C3_RejectedChangesNothing ==
    [][\A s \in Sessions :
         /\ (pc[s] = "idle" /\ pc'[s] = "form_loaded") => persisted' = persisted
         /\ ( /\ pc[s] = "form_loaded"
              /\ pc'[s] # "form_loaded"
              /\ (strip(loc[s].name) = <<>> \/ strip(loc[s].company) = <<>>) )
            => /\ out'.kind = "form_error"
               /\ pc'[s] = "idle"
               /\ persisted' = persisted]_vars

\* witness of C3: the validation error is shown for a name with a company
\* that is blank after trimming, while a table holds rows
C3_Rejected ==
    /\ out.kind = "form_error"
    /\ \E s \in Sessions : strip(loc[s].name) # <<>> /\ loc[s].company = <<" ">>
    /\ \E e \in Ids : csv[e].kind = "csv" /\ Len(csv[e].lines) > 0

\* C4: the reset of an event leaves its table with no rows and the six
\* columns in their order, and leaves every other table and all metadata
\* as they were; so does the first half of the reset, which empties the file.
C4_ResetEmptiesOneTable ==
    [][\A s \in Sessions :
         /\ (pc[s] = "reset_open" /\ pc'[s] # "reset_open") =>
              /\ csv'[loc[s].event_id] = [kind |-> "csv", header |-> COLUMNS, lines |-> <<>>]
              /\ load_event_df(csv'[loc[s].event_id]) = EmptyFrame
              /\ \A o \in Ids \ {loc[s].event_id} : csv'[o] = csv[o]
              /\ metaf' = metaf
         /\ (pc[s] = "reset" /\ pc'[s] = "reset_open") =>
              /\ loc'[s].event_id = loc[s].press[2]
              /\ Len(csv'[loc'[s].event_id].lines) = 0
              /\ \A o \in Ids \ {loc'[s].event_id} : csv'[o] = csv[o]
              /\ metaf' = metaf]_vars

\* C5: with one browser, a request with mode=admin whose key is the
\* configured secret is shown every event
\* with its table as it stands (for the event whose reset button the
\* request pressed: as it stood when the loop came to it); with any other
\* key (none, another case) it is denied, is shown no table and no export,
\* QR or reset button, and changes no file.
C5_AdminKeyGate ==
    [][(out = NoOut /\ out' # NoOut /\ out'.q.mode = "admin"
          /\ out'.kind # "redirect_index") =>
         IF out'.q.key = ADMIN_KEY
         THEN /\ out'.kind \in {"admin", "admin_empty"}
              /\ out'.kind = "admin_empty" => MetaIds = {}
              /\ out'.kind = "admin" =>
                   /\ { out'.events[i] : i \in 1..Len(out'.events) } = MetaIds
                   /\ MetaIds # {}
                   /\ DOMAIN out'.rosters = MetaIds
                   /\ \A s \in Sessions : \A e \in MetaIds :
                        (pc[s] \notin {"idle", "off"} /\ loc[s].press # <<"reset", e>>)
                          => out'.rosters[e] = load_event_df(csv'[e])
         ELSE /\ out'.kind = "denied"
              /\ out'.rosters = NoRosters
              /\ out'.buttons \cap {"csv", "xlsx", "regen", "reset"} = {}
              /\ persisted' = persisted]_vars

\* C6: every list of events shown names a later created event before an
\* earlier created one.
C6_NewestFirst ==
    \A i, j \in 1..Len(out.events) :
      i < j => created_nth(out.events[i]) > created_nth(out.events[j])

\* C7 as claimed: a request that is neither (event present and
\* mode = "form") nor mode = "admin" is shown the home view; stated for the
\* requests the iPhone/Safari workarounds leave alone.
C7_ElseHome ==
    ( /\ out # NoOut
      /\ Direct(out)
      /\ ~(~Falsy(out.q.event) /\ out.q.mode = "form")
      /\ out.q.mode # "admin" )
    => out.kind \in {"home", "created"}

\* C7, amended: of the requests that are neither (event present and
\* mode = "form") nor mode = "admin", and that the iPhone/Safari
\* workarounds leave alone, those with no event and no mode are shown the
\* home view and all others are shown no view below the page header.
C7_HomeOnlyWithoutParams ==
    ( /\ out # NoOut
      /\ Direct(out)
      /\ ~(~Falsy(out.q.event) /\ out.q.mode = "form")
      /\ out.q.mode # "admin" )
    => IF Falsy(out.q.event) /\ Falsy(out.q.mode)
       THEN out.kind \in {"home", "created"}
       ELSE out.kind = "blank"

\* witness of C7: a request with an unknown mode and no event is shown no
\* view while events exist
C7_BlankShown ==
    /\ out.kind = "blank"
    /\ Direct(out)
    /\ Falsy(out.q.event)
    /\ out.q.mode = "list"
    /\ MetaIds # {}

\* C8: a submission whose row was in a table when a reset of that table
\* began is behind no row of the table once the reset has completed, nor
\* ever after.
C8_ResetIsFinal ==
    \A e \in Ids : in_table(e) \cap purged[e] = {}

\* C9: while no script run is under way, every submission confirmed under
\* an id, and not in the table of that id when a reset of it began, is
\* behind a row of the table the admin view loads for some event.
C9_ConfirmedIsShown ==
    Quiet =>
      \A e \in Ids : \A n \in confirmed[e] \ purged[e] :
        \E shown \in MetaIds :
          \E i \in 1..Len(load_event_df(csv[shown]).rows) : who[shown][i] = n

\* C10: a page for a request that does not carry the secret shows neither
\* a link with the secret in it nor an attendee table.
C10_SecretNotShown ==
    out.q.key # ADMIN_KEY =>
      /\ \A l \in out.links : l.key # ADMIN_KEY
      /\ out.rosters = NoRosters

====
